---- MODULE Spec2Model ----
(***************************************************************************)
(* Model of the terminal chat client (tui/src/app/mod.rs): the App state   *)
(* store, its text-editing operations and the main_loop that merges the    *)
(* server event stream, the ticker and the shutdown broadcast.             *)
(* The UI router with its connect page and message input box            *)
(* (tui/src/ui_management/pages) is modelled next to it.                   *)
(***************************************************************************)
EXTENDS Integers, Sequences, FiniteSets, TLC

(* ------------------------------------------------------------------ *)
(* Bounds of the model                                                  *)
(* ------------------------------------------------------------------ *)
\* key events handled in the editing-only specification
MaxEditKeys == 5
\* key events handled while the merge loop runs
MaxLoopKeys == 1
\* key events handled in the state-store specification
MaxStoreKeys == 2
\* server events applied in the state-store specification
MaxStoreEvents == 3
\* items the event stream delivers to the merge loop
MaxEvents == 2
\* ticker firings
MaxTicks == 2
\* key events handled in the transport-fault specification
MaxFaultKeys == 2
\* length of the texts the connect page's input box starts with
MaxBoxLen == 1
\* key events the UI router handles
MaxUiKeys == 3
\* values the broadcast channel holds for the receiver; a broadcast into a
\* full channel (after which recv yields Err(Lagged)) is not followed
ChanCap == 1

(* ------------------------------------------------------------------ *)
(* Text: a String is a sequence of chars, each stored in 1..4 bytes     *)
(* ------------------------------------------------------------------ *)
\* the chars the keyboard can deliver in the model; "é" is stored in two bytes
Chars == {"e", "q", "é"}

len_utf8(ch) == IF ch = "é" THEN 2 ELSE 1

RECURSIVE ByteLen(_)
\* String::len: the number of bytes of the stored encoding
ByteLen(s) == IF s = <<>> THEN 0 ELSE len_utf8(Head(s)) + ByteLen(Tail(s))

\* str::chars().count(): the number of characters
CharLen(s) == Len(s)

\* chars().take(n)
Take(s, n) == SubSeq(s, 1, IF n < Len(s) THEN n ELSE Len(s))

\* chars().skip(n)
Skip(s, n) == SubSeq(s, (IF n < Len(s) THEN n ELSE Len(s)) + 1, Len(s))

\* str::is_char_boundary: byte offset i is the start of a char or the end of s
is_char_boundary(s, i) == \E k \in 0..Len(s) : ByteLen(Take(s, k)) = i

\* the character index whose byte offset is i (i a char boundary)
CharIndexOf(s, i) == CHOOSE k \in 0..Len(s) : ByteLen(Take(s, k)) = i

\* String::insert(idx, ch): idx is a byte offset; faults unless it is a boundary
StringInsertFaults(s, idx) == ~ is_char_boundary(s, idx)

StringInsert(s, idx, ch) ==
    LET k == CharIndexOf(s, idx) IN Take(s, k) \o <<ch>> \o Skip(s, k)

\* usize::clamp
Clamp(x, lo, hi) == IF x < lo THEN lo ELSE IF x > hi THEN hi ELSE x

\* usize::saturating_sub(1)
SaturatingSub1(x) == IF x = 0 THEN 0 ELSE x - 1

(* ------------------------------------------------------------------ *)
(* Values carried by server events                                      *)
(* ------------------------------------------------------------------ *)
Users == {"alice", "bob"}
RoomNames == {"general", "random"}
Contents == {"hi"}
Statuses == {"Joined", "Left"}

\* the room lists a LoginSuccessful can carry (one with a repeated name)
RoomLists ==
    { <<[name |-> "general", description |-> ""]>>,
      <<[name |-> "general", description |-> ""], [name |-> "random", description |-> ""]>>,
      <<[name |-> "general", description |-> ""], [name |-> "general", description |-> ""]>> }

LoginEvents == { [type |-> "LoginSuccessful", username |-> u, rooms |-> R] :
                   u \in Users, R \in RoomLists }
ParticipationEvents ==
    { [type |-> "RoomParticipation", room |-> r, username |-> u, status |-> s] :
        r \in RoomNames, u \in Users, s \in Statuses }
MessageEvents ==
    { [type |-> "UserMessage", room |-> r, username |-> u, content |-> c] :
        r \in RoomNames, u \in Users, c \in Contents }
Events == LoginEvents \cup ParticipationEvents \cup MessageEvents

Interrupted == {"UserInt", "OsSigInt"}

(* ------------------------------------------------------------------ *)
(* State                                                                *)
(* ------------------------------------------------------------------ *)
VARIABLES
    app,           \* the App record behind Arc<RwLock<App>>
    outbox,        \* commands the command writer has written to the transport
    keypc,         \* the key-handling task: "idle", "locked" or "panicked"
    nkeys,         \* key events handled so far
    lastKey,       \* history: the key event handled last
    sendFailed,    \* history: a write of the command writer has failed
    writer,        \* holder of the RwLock's write guard: "none", "main" or "key"
    reading,       \* TRUE while the render pass holds the shared read guard
    chan,          \* interrupt_rx: the broadcast values the receiver has not read yet
    sent,          \* history: every termination reason broadcast so far
    pc,            \* main_loop: "select", "ev_lock", "ev_apply", "tick_lock",
                   \*            "tick_apply", "returned" or "panicked"
    disabled,      \* select! branches disabled in the current select
    cur,           \* the event the select! branch bound (while pc is ev_*)
    stage,         \* assignments of handle_server_event already done on cur
    pre,           \* history: app when the write guard for cur was acquired
    result,        \* the value main_loop returned
    inbox,         \* the item event_stream.next() yields next, once decoded
    streamOpen,    \* FALSE once the event stream has ended
    nArrived,      \* items the stream has delivered so far
    ticksDue,      \* ticks of the interval that are due and not yet taken
    nTicks,        \* ticker firings so far
    yielded,       \* history: events the select! took from the stream
    applied,       \* history: events handle_server_event has completed
    ticksObserved, \* history: completions of the ticker branch
    trackOrder,    \* whether readyOrder is recorded (fixed by the initial state)
    readyOrder,    \* history: sources of the ready, untaken items, oldest first
    faultSeen,     \* history: the loop polled a fault item or the end of the stream
    server_connection_status, \* State.server_connection_status
    state_room,    \* State.active_room: "none" or a room name
    active_page,   \* AppRouter.props.active_page
    box_room,      \* MessageInputBox.props.active_room
    message_box,   \* MessageInputBox.input_box
    connect_box,   \* ConnectPage.input_box
    uiAction,      \* history: the Action the last AppRouter::handle_key_event returned
    routed,        \* history: the last call the router passed on, and the page it went to
    synced,        \* history: the connection status at the last update_from_state
    nUi            \* key events the router has handled so far

editVars == <<app, outbox, keypc, nkeys, lastKey, sendFailed>>
lockVars == <<writer, reading>>
chanVars == <<chan, sent>>
loopVars == <<pc, disabled, cur, stage, pre, result>>
srcVars == <<inbox, streamOpen, nArrived, ticksDue, nTicks>>
histVars == <<yielded, applied, ticksObserved, faultSeen, trackOrder>>
coreVars == <<editVars, lockVars, chanVars, loopVars, srcVars, histVars, readyOrder>>
uiVars == <<server_connection_status, state_room, active_page, box_room,
            message_box, connect_box, uiAction, routed, synced, nUi>>
vars == <<app, outbox, keypc, nkeys, lastKey, sendFailed, writer, reading, chan, sent, pc,
          disabled, cur, stage, pre, result, inbox, streamOpen, nArrived,
          ticksDue, nTicks, yielded, applied, ticksObserved, trackOrder, readyOrder,
          faultSeen, uiVars>>

RoomState_new(name, description, joined) ==
    [name |-> name, description |-> description, joined |-> joined]

\* App::new
App_new ==
    [ username |-> "",
      active_room |-> "general",
      rooms |-> <<>>,
      input |-> <<>>,
      input_mode |-> "Normal",
      messages |-> [r \in {} |-> <<>>],
      cursor_position |-> 0,
      timer |-> 0 ]

(* ------------------------------------------------------------------ *)
(* Editing operations of App                                            *)
(* ------------------------------------------------------------------ *)
clamp_cursor(a, new_cursor_pos) == Clamp(new_cursor_pos, 0, ByteLen(a.input))

move_cursor_left(a) ==
    [a EXCEPT !.cursor_position = clamp_cursor(a, SaturatingSub1(a.cursor_position))]

move_cursor_right(a) ==
    [a EXCEPT !.cursor_position = clamp_cursor(a, a.cursor_position + 1)]

enter_char_faults(a) == StringInsertFaults(a.input, a.cursor_position)

enter_char(a, new_char) ==
    move_cursor_right([a EXCEPT !.input = StringInsert(a.input, a.cursor_position, new_char)])

delete_char(a) ==
    IF a.cursor_position # 0
    THEN move_cursor_left(
           [a EXCEPT !.input = Take(a.input, a.cursor_position - 1)
                                 \o Skip(a.input, a.cursor_position)])
    ELSE a

reset_cursor(a) == [a EXCEPT !.cursor_position = 0]

\* submit_message: the state part (the write to the transport is in the action)
submit_message(a) == reset_cursor([a EXCEPT !.input = <<>>])

SendMessageCommand(a) == [type |-> "SendMessage", room |-> "general", content |-> a.input]

(* ------------------------------------------------------------------ *)
(* Key events                                                           *)
(* ------------------------------------------------------------------ *)
KeyCodes == {"Char", "Enter", "Backspace", "Left", "Right", "Esc", "Tab"}

Keys ==
    { [code |-> "Char", ch |-> c, kind |-> k, ctrl |-> FALSE] : c \in Chars, k \in {"Press", "Release"} }
    \cup { [code |-> c, ch |-> "", kind |-> "Press", ctrl |-> FALSE] : c \in KeyCodes \ {"Char"} }
    \cup { [code |-> "Char", ch |-> "c", kind |-> "Press", ctrl |-> TRUE] }

\* the value of lastKey before any key event
NoKey == [code |-> "none", ch |-> "", kind |-> "Press", ctrl |-> FALSE]

(* ------------------------------------------------------------------ *)
(* The shutdown broadcast (Terminator / broadcast::Receiver)            *)
(* ------------------------------------------------------------------ *)
RECURSIVE RemoveFirst(_, _)
\* s without its first occurrence of x
RemoveFirst(s, x) ==
    IF s = <<>> THEN <<>>
    ELSE IF Head(s) = x THEN Tail(s)
    ELSE <<Head(s)>> \o RemoveFirst(Tail(s), x)

\* readyOrder after an item of source src became ready
Arrived(src) == IF trackOrder THEN Append(readyOrder, src) ELSE readyOrder

\* readyOrder after the select! took the oldest ready item of source src
Taken(src) == IF trackOrder THEN RemoveFirst(readyOrder, src) ELSE readyOrder

\* Terminator::terminate: the reason is queued for every receiver
terminate(reason) ==
    /\ Len(chan) < ChanCap
    /\ sent' = Append(sent, reason)
    /\ chan' = Append(chan, reason)
    /\ readyOrder' = Arrived("shutdown")

(* ------------------------------------------------------------------ *)
(* App::handle_key_event                                                *)
(* ------------------------------------------------------------------ *)
\* what the handler does with key in state a
KeyEffect(a, key) ==
    IF a.input_mode = "Normal"
    THEN IF key.code = "Char" /\ key.ch = "e" THEN "edit"
         ELSE IF key.code = "Char" /\ key.ch = "q" THEN "terminate"
         ELSE IF key.code = "Char" /\ key.ch = "c" /\ key.ctrl THEN "terminate"
         ELSE "none"
    ELSE IF key.kind = "Press"
         THEN CASE key.code = "Enter" -> "submit"
                [] key.code = "Char" -> "enter_char"
                [] key.code = "Backspace" -> "delete_char"
                [] key.code = "Left" -> "move_cursor_left"
                [] key.code = "Right" -> "move_cursor_right"
                [] key.code = "Esc" -> "normal"
                [] OTHER -> "none"
         ELSE "none"

\* the App after the handler returned (the handler did not fault)
handle_key_event(a, key) ==
    LET e == KeyEffect(a, key) IN
    CASE e = "edit" -> [a EXCEPT !.input_mode = "Editing"]
      [] e = "submit" -> submit_message(a)
      [] e = "enter_char" -> enter_char(a, key.ch)
      [] e = "delete_char" -> delete_char(a)
      [] e = "move_cursor_left" -> move_cursor_left(a)
      [] e = "move_cursor_right" -> move_cursor_right(a)
      [] e = "normal" -> [a EXCEPT !.input_mode = "Normal"]
      [] OTHER -> a

handle_key_event_faults(a, key) ==
    KeyEffect(a, key) = "enter_char" /\ enter_char_faults(a)

\* the key task takes the write guard to call handle_key_event(&mut self)
KeyLock(budget) ==
    /\ pc \notin {"returned", "panicked"}
    /\ keypc = "idle"
    /\ nkeys < budget
    /\ writer = "none"
    /\ ~ reading
    /\ keypc' = "locked"
    /\ writer' = "key"
    /\ UNCHANGED <<app, outbox, nkeys, lastKey, sendFailed, reading, chanVars,
                   loopVars, srcVars, histVars, readyOrder>>
    /\ UNCHANGED uiVars

\* one key event handled under the write guard; sendOk is the outcome of the
\* command writer's write, which submit_message discards
KeyHandle(key, sendOk) ==
    /\ keypc = "locked"
    /\ nkeys' = nkeys + 1
    /\ lastKey' = key
    /\ writer' = "none"
    /\ sendFailed' = (sendFailed \/ (KeyEffect(app, key) = "submit" /\ ~ sendOk))
    /\ IF handle_key_event_faults(app, key)
       THEN /\ keypc' = "panicked"
            /\ UNCHANGED <<app, outbox, chanVars, readyOrder>>
       ELSE /\ keypc' = "idle"
            /\ app' = handle_key_event(app, key)
            /\ IF KeyEffect(app, key) = "terminate"
               THEN terminate("UserInt")
               ELSE UNCHANGED <<chanVars, readyOrder>>
            /\ IF KeyEffect(app, key) = "submit" /\ sendOk
               THEN outbox' = Append(outbox, SendMessageCommand(app))
               ELSE outbox' = outbox
    /\ UNCHANGED <<reading, loopVars, srcVars, histVars>>
    /\ UNCHANGED uiVars

(* ------------------------------------------------------------------ *)
(* App::handle_server_event and App::increment_timer                    *)
(* ------------------------------------------------------------------ *)
RoomNamesOf(R) == { R[i].name : i \in DOMAIN R }

\* rooms.iter_mut().find(|r| r.name == room): the index of the first match, 0 if none
FindRoom(rooms, room) ==
    IF \E i \in DOMAIN rooms : rooms[i].name = room
    THEN CHOOSE i \in DOMAIN rooms :
           /\ rooms[i].name = room
           /\ \A j \in DOMAIN rooms : rooms[j].name = room => i <= j
    ELSE 0

\* format!("{} has {} the room", username, "joined" | "left")
NotificationText(username, status) ==
    username \o " has " \o (IF status = "Joined" THEN "joined" ELSE "left") \o " the room"

Notification(text) == [kind |-> "Notification", text |-> text]

Message(username, content) == [kind |-> "Message", username |-> username, content |-> content]

\* the number of assignments handle_server_event makes for ev
NumStages(ev) ==
    CASE ev.type = "LoginSuccessful" -> 3
      [] ev.type = "RoomParticipation" -> 2
      [] ev.type = "UserMessage" -> 1

\* a variant whose log lookup tolerates a room without a log
StageFaultsLenient(a, ev, i) ==
    ev.type = "RoomParticipation" /\ i = 1
      /\ ev.username = a.username /\ FindRoom(a.rooms, ev.room) = 0

\* whether the i-th assignment for ev faults in state a (expect / unwrap)
StageFaults(a, ev, i) ==
    CASE ev.type = "RoomParticipation" /\ i = 1 ->
           ev.username = a.username /\ FindRoom(a.rooms, ev.room) = 0
      [] ev.type = "RoomParticipation" /\ i = 2 -> ev.room \notin DOMAIN a.messages
      [] ev.type = "UserMessage" /\ i = 1 -> ev.room \notin DOMAIN a.messages
      [] OTHER -> FALSE

\* self.username = event.username.clone()
login_set_username(a, ev) == [a EXCEPT !.username = ev.username]

\* a variant that adds the rooms of the event to the list it finds
login_set_rooms_extending(a, ev) ==
    [a EXCEPT !.rooms = a.rooms \o [k \in DOMAIN ev.rooms |->
        RoomState_new(ev.rooms[k].name, ev.rooms[k].description, FALSE)]]

\* self.rooms = event.rooms ... map(|r| RoomState::new(r.name, r.description, false))
login_set_rooms(a, ev) ==
    [a EXCEPT !.rooms = [k \in DOMAIN ev.rooms |->
        RoomState_new(ev.rooms[k].name, ev.rooms[k].description, FALSE)]]

\* a variant that keeps the log of a room that already has one
login_set_messages_keeping(a, ev) ==
    [a EXCEPT !.messages = [n \in RoomNamesOf(ev.rooms) |->
        IF n \in DOMAIN a.messages THEN a.messages[n] ELSE <<>>]]

\* self.messages = event.rooms ... map(|r| (r.name, Vec::new())).collect()
login_set_messages(a, ev) ==
    [a EXCEPT !.messages = [n \in RoomNamesOf(ev.rooms) |-> <<>>]]

\* a variant that sets the flag whoever joined or left
participation_set_joined_any_user(a, ev) ==
    [a EXCEPT !.rooms[FindRoom(a.rooms, ev.room)].joined = (ev.status = "Joined")]

\* if event.username == self.username { room.joined = ... }
participation_set_joined(a, ev) ==
    IF ev.username = a.username
    THEN [a EXCEPT !.rooms[FindRoom(a.rooms, ev.room)].joined = (ev.status = "Joined")]
    ELSE a

\* a variant that puts the notification in front of the log
participation_push_notification_front(a, ev) ==
    [a EXCEPT !.messages[ev.room] =
        <<Notification(NotificationText(ev.username, ev.status))>> \o @]

\* self.messages.get_mut(&event.room).unwrap().push(Notification(..))
participation_push_notification(a, ev) ==
    [a EXCEPT !.messages[ev.room] =
        Append(@, Notification(NotificationText(ev.username, ev.status)))]

\* a variant that logs the message in the active room
user_message_push_active_room(a, ev) ==
    [a EXCEPT !.messages[a.active_room] = Append(@, Message(ev.username, ev.content))]

\* self.messages.get_mut(&event.room).unwrap().push(Message { .. })
user_message_push(a, ev) ==
    [a EXCEPT !.messages[ev.room] = Append(@, Message(ev.username, ev.content))]

\* state a after the i-th assignment for ev (which does not fault)
Stage(a, ev, i) ==
    CASE ev.type = "LoginSuccessful" /\ i = 1 -> login_set_username(a, ev)
      [] ev.type = "LoginSuccessful" /\ i = 2 -> login_set_rooms(a, ev)
      [] ev.type = "LoginSuccessful" /\ i = 3 -> login_set_messages(a, ev)
      [] ev.type = "RoomParticipation" /\ i = 1 -> participation_set_joined(a, ev)
      [] ev.type = "RoomParticipation" /\ i = 2 -> participation_push_notification(a, ev)
      [] ev.type = "UserMessage" /\ i = 1 -> user_message_push(a, ev)

RECURSIVE RunStages(_, _, _)
\* the assignments i.. of the handler, in order, stopping at a fault
RunStages(a, ev, i) ==
    IF i > NumStages(ev) THEN [faulted |-> FALSE, app |-> a]
    ELSE IF StageFaults(a, ev, i) THEN [faulted |-> TRUE, app |-> a]
    ELSE RunStages(Stage(a, ev, i), ev, i + 1)

handle_server_event_faults(a, ev) == RunStages(a, ev, 1).faulted

handle_server_event(a, ev) == RunStages(a, ev, 1).app

\* a variant that counts a tick twice
increment_timer_twice(a) == [a EXCEPT !.timer = a.timer + 2]

\* a variant that also puts the cursor back to the start
increment_timer_resetting_cursor(a) ==
    [a EXCEPT !.timer = a.timer + 1, !.cursor_position = 0]

increment_timer(a) == [a EXCEPT !.timer = a.timer + 1]

(* ------------------------------------------------------------------ *)
(* The UI router and its pages (ui_management/pages)                    *)
(* ------------------------------------------------------------------ *)
ServerConnectionStatuses == {"Disconnected", "Connecting", "Connected", "Errored"}

\* const DEFAULT_SERVER_ADDR: &str = "localhost:8080"
DEFAULT_SERVER_ADDR ==
    <<"l", "o", "c", "a", "l", "h", "o", "s", "t", ":", "8", "0", "8", "0">>

\* InputBox: the text and the cursor, in characters
InputBox_new == [text |-> <<>>, cursor |-> 0]

\* InputBox::set_text; whether the cursor goes to the end or to 0 is left open
InputBox_set_text(b, text, toEnd) ==
    [text |-> text, cursor |-> IF toEnd THEN Len(text) ELSE 0]

InputBox_reset(b) == [text |-> <<>>, cursor |-> 0]

InputBox_is_empty(b) == b.text = <<>>

InputBox_text(b) == b.text

\* InputBox::handle_key_event: the editing operations of the input engine
InputBox_handle_key_event(b, key) ==
    IF key.kind # "Press" THEN b
    ELSE CASE key.code = "Char" ->
                [text |-> SubSeq(b.text, 1, b.cursor) \o <<key.ch>>
                            \o SubSeq(b.text, b.cursor + 1, Len(b.text)),
                 cursor |-> b.cursor + 1]
           [] key.code = "Backspace" ->
                IF b.cursor = 0 THEN b
                ELSE [text |-> SubSeq(b.text, 1, b.cursor - 1)
                                 \o SubSeq(b.text, b.cursor + 1, Len(b.text)),
                      cursor |-> b.cursor - 1]
           [] key.code = "Left" -> [b EXCEPT !.cursor = Clamp(b.cursor - 1, 0, Len(b.text))]
           [] key.code = "Right" -> [b EXCEPT !.cursor = Clamp(b.cursor + 1, 0, Len(b.text))]
           [] OTHER -> b

Action_None == [type |-> "None"]

\* a variant that shows the chat page for every status but Disconnected
Props_from_all_but_disconnected(st) ==
    IF st # "Disconnected" THEN "ChatPage" ELSE "ConnectPage"

\* impl From<&State> for Props (pages/mod.rs)
Props_from(st) == IF st = "Connected" THEN "ChatPage" ELSE "ConnectPage"

\* MessageInputBox::submit_message: the Action returned and the box afterwards
MessageInputBox_submit_message(b) ==
    IF ~ InputBox_is_empty(b)
    THEN [action |-> [type |-> "SendMessage", content |-> InputBox_text(b)],
          box |-> InputBox_reset(b)]
    ELSE [action |-> Action_None, box |-> b]

\* MessageInputBox::handle_key_event
MessageInputBox_handle_key_event(b, room, key) ==
    IF key.kind = "Press" /\ room # "none"
    THEN LET edited == InputBox_handle_key_event(b, key) IN
         IF key.code = "Enter"
         THEN MessageInputBox_submit_message(edited)
         ELSE [action |-> Action_None, box |-> edited]
    ELSE [action |-> Action_None, box |-> b]

\* SectionActivation::deactivate of MessageInputBox
MessageInputBox_deactivate(b) == InputBox_reset(b)

\* a variant that asks for a connection whatever the box holds
ConnectPage_connect_to_server_always(b) ==
    [action |-> [type |-> "ConnectToServerRequest", addr |-> InputBox_text(b)],
     box |-> b]

\* ConnectPage::connect_to_server: the Action returned and the box afterwards
ConnectPage_connect_to_server(b) ==
    IF InputBox_is_empty(b)
    THEN [action |-> Action_None, box |-> b]
    ELSE [action |-> [type |-> "ConnectToServerRequest", addr |-> InputBox_text(b)],
          box |-> b]

\* ConnectPage::handle_key_event
ConnectPage_handle_key_event(b, key) ==
    LET edited == InputBox_handle_key_event(b, key) IN
    IF key.kind # "Press" THEN [action |-> Action_None, box |-> edited]
    ELSE CASE key.code = "Enter" -> ConnectPage_connect_to_server(edited)
           [] key.code = "Char" /\ key.ch = "q" -> [action |-> [type |-> "Exit"], box |-> edited]
           [] key.code = "Char" /\ key.ch = "c" /\ key.ctrl ->
                [action |-> [type |-> "Exit"], box |-> edited]
           [] OTHER -> [action |-> Action_None, box |-> edited]

\* the state after State::default, AppRouter::new, ChatPage::new, ConnectPage::new,
\* with box the input box of the connect page
InitUi(box) ==
    /\ server_connection_status = "Disconnected"
    /\ state_room = "none"
    /\ active_page = Props_from(server_connection_status)
    /\ box_room = state_room
    /\ message_box = InputBox_new
    /\ connect_box = box
    /\ uiAction = Action_None
    /\ routed = [op |-> "none", page |-> "none"]
    /\ synced = server_connection_status
    /\ nUi = 0

InitState ==
    /\ app = App_new
    /\ outbox = <<>>
    /\ keypc = "idle"
    /\ nkeys = 0
    /\ lastKey = NoKey
    /\ sendFailed = FALSE
    /\ writer = "none"
    /\ reading = FALSE
    /\ chan = <<>>
    /\ sent = <<>>
    /\ pc = "select"
    /\ disabled = {}
    /\ cur = [type |-> "none"]
    /\ stage = 0
    /\ pre = App_new
    /\ result = "none"
    /\ inbox = <<>>
    /\ streamOpen = TRUE
    /\ nArrived = 0
    /\ ticksDue = 1
    /\ nTicks = 1
    /\ yielded = <<>>
    /\ applied = <<>>
    /\ ticksObserved = 0
    /\ faultSeen = FALSE

Init ==
    /\ InitState
    /\ InitUi(InputBox_set_text(InputBox_new, DEFAULT_SERVER_ADDR, TRUE))
    /\ trackOrder = FALSE
    /\ readyOrder = <<>>

\* the same start, recording the order in which items become ready
InitOrder ==
    /\ InitState
    /\ InitUi(InputBox_set_text(InputBox_new, DEFAULT_SERVER_ADDR, TRUE))
    /\ trackOrder = TRUE
    /\ readyOrder = <<"tick">>

(* ------------------------------------------------------------------ *)
(* The sources main_loop selects among                                  *)
(* ------------------------------------------------------------------ *)
\* the items the event stream yields to the merge loop: decoded events
\* (one names a room no login lists) and a fault
LoopEvents ==
    { [type |-> "LoginSuccessful", username |-> "alice",
       rooms |-> <<[name |-> "general", description |-> ""]>>],
      [type |-> "RoomParticipation", room |-> "general", username |-> "alice",
       status |-> "Joined"],
      [type |-> "UserMessage", room |-> "general", username |-> "bob", content |-> "hi"],
      [type |-> "UserMessage", room |-> "random", username |-> "bob", content |-> "hi"] }

ErrItem == [type |-> "Err"]

\* the key events delivered while the merge loop runs
LoopKeys ==
    { [code |-> "Char", ch |-> c, kind |-> "Press", ctrl |-> FALSE] : c \in {"e", "q"} }

\* the key events delivered in the state-store specification
StoreKeys == { [code |-> "Char", ch |-> "e", kind |-> "Press", ctrl |-> FALSE] }

\* main_loop has neither returned nor faulted; the sources and the other
\* tasks are followed only while it runs
Running == pc \notin {"returned", "panicked"}

\* the transport has decoded one more item: event_stream.next() is ready
StreamDeliver(item) ==
    /\ Running
    /\ streamOpen
    /\ nArrived < MaxEvents
    /\ inbox = <<>>
    /\ inbox' = Append(inbox, item)
    /\ nArrived' = nArrived + 1
    /\ readyOrder' = Arrived("event")
    /\ UNCHANGED <<editVars, lockVars, chanVars, loopVars, streamOpen, ticksDue,
                   nTicks, histVars>>
    /\ UNCHANGED uiVars

\* the transport closed: once the ready items are taken, next() yields None
StreamClose ==
    /\ Running
    /\ streamOpen
    /\ streamOpen' = FALSE
    /\ UNCHANGED <<editVars, lockVars, chanVars, loopVars, inbox, nArrived,
                   ticksDue, nTicks, histVars, readyOrder>>
    /\ UNCHANGED uiVars

\* one period of the interval elapsed: one more tick is due
TimePasses ==
    /\ Running
    /\ nTicks < MaxTicks
    /\ nTicks' = nTicks + 1
    /\ ticksDue' = ticksDue + 1
    /\ readyOrder' = Arrived("tick")
    /\ UNCHANGED <<editVars, lockVars, chanVars, loopVars, inbox, streamOpen,
                   nArrived, histVars>>
    /\ UNCHANGED uiVars

\* a component other than the key handler broadcasts a termination reason
Broadcast(reason) ==
    /\ Running
    /\ terminate(reason)
    /\ UNCHANGED <<editVars, lockVars, loopVars, srcVars, histVars>>
    /\ UNCHANGED uiVars

(* ------------------------------------------------------------------ *)
(* The render pass: a shared read guard for one pass                    *)
(* ------------------------------------------------------------------ *)
ReadAcquire ==
    /\ Running
    /\ ~ reading
    /\ writer = "none"
    /\ reading' = TRUE
    /\ UNCHANGED <<editVars, writer, chanVars, loopVars, srcVars, histVars, readyOrder>>
    /\ UNCHANGED uiVars

ReadRelease ==
    /\ reading
    /\ reading' = FALSE
    /\ UNCHANGED <<editVars, writer, chanVars, loopVars, srcVars, histVars, readyOrder>>
    /\ UNCHANGED uiVars

(* ------------------------------------------------------------------ *)
(* main_loop                                                            *)
(* ------------------------------------------------------------------ *)
\* RwLock::write is granted: no writer and no reader holds the lock
WriteGranted == writer = "none" /\ ~ reading

\* a variant whose guard outlives the branch block
GuardKeptAfterBranch == "main"

\* the write guard is a local of the branch block: it is dropped when the
\* block ends, before the next select!
GuardAfterBranch == "none"

\* a variant that returns a fixed reason instead of the received one
recv_value_fixed(ch) == "UserInt"

\* the value interrupt_rx.recv() yields: the oldest the receiver has not read
recv_value(ch) == Head(ch)

\* Some(Ok(event)) = event_stream.next(): the branch binds the next event
SelectEvent ==
    /\ pc = "select"
    /\ "event" \notin disabled
    /\ inbox # <<>>
    /\ Head(inbox) # ErrItem
    /\ cur' = Head(inbox)
    /\ inbox' = Tail(inbox)
    /\ yielded' = Append(yielded, Head(inbox))
    /\ readyOrder' = Taken("event")
    /\ pc' = "ev_lock"
    /\ disabled' = {}
    /\ UNCHANGED <<editVars, lockVars, chanVars, stage, pre, result, streamOpen,
                   nArrived, ticksDue, nTicks, applied, ticksObserved, faultSeen, trackOrder>>
    /\ UNCHANGED uiVars

\* event_stream.next() yields Some(Err(_)) or None: the pattern does not
\* match, select! disables the branch and keeps waiting on the others
SelectEventNoMatch ==
    /\ pc = "select"
    /\ "event" \notin disabled
    /\ \/ /\ inbox # <<>>
          /\ Head(inbox) = ErrItem
          /\ inbox' = Tail(inbox)
          /\ readyOrder' = Taken("event")
       \/ /\ inbox = <<>>
          /\ ~ streamOpen
          /\ UNCHANGED <<inbox, readyOrder>>
    /\ disabled' = disabled \cup {"event"}
    /\ faultSeen' = TRUE
    /\ UNCHANGED <<editVars, lockVars, chanVars, pc, cur, stage, pre, result,
                   streamOpen, nArrived, ticksDue, nTicks, yielded, applied,
                   ticksObserved, trackOrder>>
    /\ UNCHANGED uiVars

\* a variant whose ticker coalesces every due tick into one completion
SelectTickCoalescing ==
    /\ pc = "select"
    /\ ticksDue > 0
    /\ ticksDue' = 0
    /\ ticksObserved' = ticksObserved + 1
    /\ readyOrder' = IF trackOrder
                     THEN SelectSeq(readyOrder, LAMBDA x : x # "tick")
                     ELSE readyOrder
    /\ pc' = "tick_lock"
    /\ disabled' = {}
    /\ UNCHANGED <<editVars, lockVars, chanVars, cur, stage, pre, result, inbox,
                   streamOpen, nArrived, nTicks, yielded, applied, faultSeen, trackOrder>>
    /\ UNCHANGED uiVars

\* _ = ticker.tick()
SelectTick ==
    /\ pc = "select"
    /\ ticksDue > 0
    /\ ticksDue' = ticksDue - 1
    /\ ticksObserved' = ticksObserved + 1
    /\ readyOrder' = Taken("tick")
    /\ pc' = "tick_lock"
    /\ disabled' = {}
    /\ UNCHANGED <<editVars, lockVars, chanVars, cur, stage, pre, result, inbox,
                   streamOpen, nArrived, nTicks, yielded, applied, faultSeen, trackOrder>>
    /\ UNCHANGED uiVars

\* a variant that reads the reason and goes on selecting instead of breaking
SelectRecvNoBreak ==
    /\ pc = "select"
    /\ "recv" \notin disabled
    /\ chan # <<>>
    /\ chan' = Tail(chan)
    /\ readyOrder' = Taken("shutdown")
    /\ disabled' = {}
    /\ UNCHANGED <<editVars, lockVars, sent, pc, result, cur, stage, pre,
                   srcVars, histVars>>
    /\ UNCHANGED uiVars

\* Ok(interrupted) = interrupt_rx.recv() => break interrupted
SelectRecv ==
    /\ pc = "select"
    /\ "recv" \notin disabled
    /\ chan # <<>>
    /\ result' = recv_value(chan)
    /\ chan' = Tail(chan)
    /\ readyOrder' = Taken("shutdown")
    /\ pc' = "returned"
    /\ disabled' = {}
    /\ UNCHANGED <<editVars, lockVars, sent, cur, stage, pre, srcVars, histVars>>
    /\ UNCHANGED uiVars

\* let mut app = app.write().await
AcquireWrite ==
    /\ pc \in {"ev_lock", "tick_lock"}
    /\ WriteGranted
    /\ writer' = "main"
    /\ pc' = IF pc = "ev_lock" THEN "ev_apply" ELSE "tick_apply"
    /\ stage' = 0
    /\ pre' = app
    /\ UNCHANGED <<editVars, reading, chanVars, disabled, cur, result, srcVars,
                   histVars, readyOrder>>
    /\ UNCHANGED uiVars

\* app.handle_server_event(&event), one assignment at a time under the guard
ApplyStage ==
    /\ pc = "ev_apply"
    /\ IF StageFaults(app, cur, stage + 1)
       THEN /\ pc' = "panicked"
            /\ writer' = "none"
            /\ UNCHANGED <<app, stage, applied>>
       ELSE /\ app' = Stage(app, cur, stage + 1)
            /\ IF stage + 1 = NumStages(cur)
               THEN /\ pc' = "select"
                    /\ writer' = GuardAfterBranch
                    /\ stage' = 0
                    /\ applied' = Append(applied, cur)
               ELSE /\ stage' = stage + 1
                    /\ UNCHANGED <<pc, writer, applied>>
    /\ UNCHANGED <<outbox, keypc, nkeys, lastKey, sendFailed, reading, chanVars, disabled, cur, pre,
                   result, srcVars, yielded, ticksObserved, faultSeen, trackOrder, readyOrder>>
    /\ UNCHANGED uiVars

\* app.increment_timer()
ApplyTick ==
    /\ pc = "tick_apply"
    /\ app' = increment_timer(app)
    /\ pc' = "select"
    /\ writer' = GuardAfterBranch
    /\ UNCHANGED <<outbox, keypc, nkeys, lastKey, sendFailed, reading, chanVars, disabled, cur, stage,
                   pre, result, srcVars, histVars, readyOrder>>
    /\ UNCHANGED uiVars

Next ==
    \/ \E item \in LoopEvents \cup {ErrItem} : StreamDeliver(item)
    \/ StreamClose
    \/ TimePasses
    \/ \E reason \in Interrupted : Broadcast(reason)
    \/ ReadAcquire
    \/ ReadRelease
    \/ KeyLock(MaxLoopKeys)
    \/ \E key \in LoopKeys : KeyHandle(key, TRUE)
    \/ SelectEvent
    \/ SelectEventNoMatch
    \/ SelectTick
    \/ SelectRecv
    \/ AcquireWrite
    \/ ApplyStage
    \/ ApplyTick

Spec == Init /\ [][Next]_vars

(* ------------------------------------------------------------------ *)
(* The merge loop with its sources and the render pass, under fair      *)
(* scheduling                                                           *)
(* ------------------------------------------------------------------ *)
NextLoop ==
    \/ \E item \in LoopEvents \cup {ErrItem} : StreamDeliver(item)
    \/ StreamClose
    \/ TimePasses
    \/ \E reason \in Interrupted : Broadcast(reason)
    \/ ReadAcquire
    \/ ReadRelease
    \/ SelectEvent
    \/ SelectEventNoMatch
    \/ SelectTick
    \/ SelectRecv
    \/ AcquireWrite
    \/ ApplyStage
    \/ ApplyTick

\* select! starts its poll at a random branch, so a branch that is ready again
\* and again is taken; tokio's RwLock queues its waiters in order, and a render
\* pass, like a mutation, runs to its end
Fairness ==
    /\ SF_vars(SelectRecv)
    /\ SF_vars(AcquireWrite)
    /\ WF_vars(ApplyStage)
    /\ WF_vars(ApplyTick)
    /\ WF_vars(ReadRelease)

FairSpec == Init /\ [][NextLoop]_vars /\ Fairness

(* ------------------------------------------------------------------ *)
(* The merge loop under fair scheduling together with the key task,     *)
(* whose writes to the transport can fail                               *)
(* ------------------------------------------------------------------ *)
\* the key events that lead to a submit
FaultKeys ==
    { [code |-> "Char", ch |-> "e", kind |-> "Press", ctrl |-> FALSE],
      [code |-> "Enter", ch |-> "", kind |-> "Press", ctrl |-> FALSE] }

NextFault ==
    \/ NextLoop
    \/ KeyLock(MaxFaultKeys)
    \/ \E key \in FaultKeys, sendOk \in BOOLEAN : KeyHandle(key, sendOk)

SpecFault == Init /\ [][NextFault]_vars /\ Fairness

(* ------------------------------------------------------------------ *)
(* The merge loop with the readiness order of its sources recorded      *)
(* ------------------------------------------------------------------ *)
SpecOrder == InitOrder /\ [][NextLoop]_vars


(* ------------------------------------------------------------------ *)
(* The state store alone: handle_server_event and increment_timer       *)
(* applied to every sequence of events, with key events in between      *)
(* ------------------------------------------------------------------ *)
StoreApply(ev) ==
    /\ pc = "select"
    /\ nArrived < MaxStoreEvents
    /\ nArrived' = nArrived + 1
    /\ keypc # "locked"
    /\ cur' = ev
    /\ pre' = app
    /\ yielded' = Append(yielded, ev)
    /\ app' = handle_server_event(app, ev)
    /\ IF handle_server_event_faults(app, ev)
       THEN pc' = "panicked" /\ applied' = applied
       ELSE pc' = pc /\ applied' = Append(applied, ev)
    /\ UNCHANGED <<outbox, keypc, nkeys, lastKey, sendFailed, lockVars, chanVars, disabled, stage, result,
                   inbox, streamOpen, ticksDue, nTicks, ticksObserved, faultSeen, trackOrder,
                   readyOrder>>
    /\ UNCHANGED uiVars

StoreTick ==
    /\ pc = "select"
    /\ nTicks < MaxTicks
    /\ nTicks' = nTicks + 1
    /\ keypc # "locked"
    /\ ticksObserved' = ticksObserved + 1
    /\ app' = increment_timer(app)
    /\ UNCHANGED <<outbox, keypc, nkeys, lastKey, sendFailed, lockVars, chanVars, loopVars, inbox,
                   streamOpen, nArrived, ticksDue, yielded, applied, faultSeen, trackOrder,
                   readyOrder>>
    /\ UNCHANGED uiVars

NextStore ==
    \/ \E ev \in Events : StoreApply(ev)
    \/ StoreTick
    \/ KeyLock(MaxStoreKeys)
    \/ \E key \in StoreKeys : KeyHandle(key, TRUE)

SpecStore == Init /\ [][NextStore]_vars

(* ------------------------------------------------------------------ *)
(* The editing engine alone: key events only                            *)
(* ------------------------------------------------------------------ *)
NextEdit ==
    \/ KeyLock(MaxEditKeys)
    \/ \E key \in Keys, sendOk \in BOOLEAN : KeyHandle(key, sendOk)

SpecEdit == Init /\ [][NextEdit]_vars

(* ------------------------------------------------------------------ *)
(* The UI router alone: status changes, update_from_state, key events   *)
(* and render passes                                                    *)
(* ------------------------------------------------------------------ *)
\* the key events delivered to the router
UiKeys ==
    { k \in Keys : k.code \in {"Char", "Enter", "Backspace", "Left"}
                      /\ k.ch \in {"", "e", "q", "c"} }

\* the store overwrites the connection status (connect flow outcomes)
SetConnectionStatus(st) ==
    /\ st # server_connection_status
    /\ server_connection_status' = st
    /\ UNCHANGED <<state_room, active_page, box_room, message_box, connect_box,
                   uiAction, routed, synced, nUi>>
    /\ UNCHANGED coreVars

\* the store changes the active room
SetActiveRoom(room) ==
    /\ room # state_room
    /\ state_room' = room
    /\ UNCHANGED <<server_connection_status, active_page, box_room, message_box,
                   connect_box, uiAction, routed, synced, nUi>>
    /\ UNCHANGED coreVars

\* AppRouter::update_from_state, with the pages' and the input box's
UpdateFromState ==
    /\ active_page' = Props_from(server_connection_status)
    /\ box_room' = state_room
    /\ synced' = server_connection_status
    /\ UNCHANGED <<server_connection_status, state_room, message_box, connect_box,
                   uiAction, routed, nUi>>
    /\ UNCHANGED coreVars

\* what ChatPage::handle_key_event can do with the message input box: pass
\* the key on to it, deactivate it (the user leaves the section), or neither
ChatPage_handle_key_event(b, room, key) ==
    { MessageInputBox_handle_key_event(b, room, key),
      [action |-> Action_None, box |-> MessageInputBox_deactivate(b)],
      [action |-> Action_None, box |-> b] }

\* AppRouter::handle_key_event: the key goes to the active page
RouterKey(key) ==
    /\ nUi < MaxUiKeys
    /\ nUi' = nUi + 1
    /\ routed' = [op |-> "handle_key_event", page |-> active_page]
    /\ IF active_page = "ChatPage"
       THEN /\ \E r \in ChatPage_handle_key_event(message_box, box_room, key) :
                  /\ message_box' = r.box
                  /\ uiAction' = r.action
            /\ connect_box' = connect_box
       ELSE /\ connect_box' = ConnectPage_handle_key_event(connect_box, key).box
            /\ uiAction' = ConnectPage_handle_key_event(connect_box, key).action
            /\ message_box' = message_box
    /\ UNCHANGED <<server_connection_status, state_room, active_page, box_room, synced>>
    /\ UNCHANGED coreVars

\* AppRouter::render: the active page is drawn
RouterRender ==
    /\ routed' = [op |-> "render", page |-> active_page]
    /\ UNCHANGED <<server_connection_status, state_room, active_page, box_room,
                   message_box, connect_box, uiAction, synced, nUi>>
    /\ UNCHANGED coreVars

NextUi ==
    \/ \E st \in ServerConnectionStatuses : SetConnectionStatus(st)
    \/ \E room \in {"none", "general"} : SetActiveRoom(room)
    \/ UpdateFromState
    \/ \E key \in UiKeys : RouterKey(key)
    \/ RouterRender

\* the start of the router, for either cursor position set_text may leave
InitRouter ==
    /\ InitState
    /\ \E toEnd \in BOOLEAN :
          InitUi(InputBox_set_text(InputBox_new, DEFAULT_SERVER_ADDR, toEnd))
    /\ trackOrder = FALSE
    /\ readyOrder = <<>>

SpecUi == InitRouter /\ [][NextUi]_vars

(* ------------------------------------------------------------------ *)
(* The connect page: handle_key_event on every input box up to a length *)
(* ------------------------------------------------------------------ *)
\* the input boxes the connect page can hold when a key arrives: the default
\* address, or what the user has left of it and typed, up to MaxBoxLen
ConnectBoxes ==
    { InputBox_set_text(InputBox_new, DEFAULT_SERVER_ADDR, toEnd) : toEnd \in BOOLEAN }
    \cup { b \in [text : UNION { [1..m -> {"e"}] : m \in 0..MaxBoxLen },
                   cursor : 0..MaxBoxLen] : b.cursor <= Len(b.text) }

InitConnect ==
    /\ InitState
    /\ \E b \in ConnectBoxes : InitUi(b)
    /\ trackOrder = FALSE
    /\ readyOrder = <<>>

NextConnect ==
    \/ \E st \in ServerConnectionStatuses : SetConnectionStatus(st)
    \/ UpdateFromState
    \/ \E key \in Keys : RouterKey(key)

SpecConnect == InitConnect /\ [][NextConnect]_vars

(* ------------------------------------------------------------------ *)
(* Helpers of the properties                                            *)
(* ------------------------------------------------------------------ *)
\* the part of App that server events write
StoreView(a) == [username |-> a.username, rooms |-> a.rooms, messages |-> a.messages]

RECURSIVE Replay(_, _)
\* state a after handle_server_event on each event of evs, in order
Replay(a, evs) ==
    IF evs = <<>> THEN a ELSE Replay(handle_server_event(a, Head(evs)), Tail(evs))

Front(s) == SubSeq(s, 1, Len(s) - 1)

Range(s) == { s[i] : i \in DOMAIN s }

\* the select! branch bound an event that handle_server_event has not completed
EventInFlight == pc \in {"ev_lock", "ev_apply"}

(* ------------------------------------------------------------------ *)
(* Properties                                                           *)
(* ------------------------------------------------------------------ *)

(* C1: after every editing operation, 0 <= cursor <= length, where length
   is the number of characters of the buffer. *)
C1_CursorWithinChars ==
    /\ 0 <= app.cursor_position
    /\ app.cursor_position <= CharLen(app.input)

(* C2: every event the stream yielded is applied to the state exactly once
   and in the order yielded: outside an application the state is the replay
   of the yielded events, while one is in flight (or faulted on an unknown
   room) it is the replay of all but the last; and when the loop has
   returned the tick counter equals the ticker firings it observed. *)
C2_EventsOnceInOrderTicksCounted ==
    /\ (~ EventInFlight /\ pc # "panicked") =>
          /\ applied = yielded
          /\ StoreView(app) = StoreView(Replay(App_new, yielded))
    /\ (EventInFlight \/ pc = "panicked") =>
          /\ yielded # <<>>
          /\ applied = Front(yielded)
          /\ (pc # "ev_apply") =>
                StoreView(app) = StoreView(Replay(App_new, Front(yielded)))
    /\ pc \in {"select", "returned", "ev_lock", "ev_apply"} => app.timer = ticksObserved
    /\ pc \in {"tick_lock", "tick_apply"} => app.timer + 1 = ticksObserved

C2_Witness ==
    /\ pc = "returned"
    /\ Len(applied) >= 2
    /\ ticksObserved >= 2
    /\ app.timer = 2

(* C3: once the event source has ended or yielded a fault, main_loop stops
   iterating: it takes no further event and no further tick. *)
C3_NoIterationAfterFault ==
    [][faultSeen => (yielded' = yielded /\ ticksObserved' = ticksObserved)]_vars

(* C4: a termination reason broadcast while main_loop waits in its select!
   makes the loop stop: it eventually returns (or has faulted on an event
   naming an unknown room before); when only the shutdown branch is ready the
   loop's next step is the return; the value returned is the reason received,
   one that was broadcast; and at the return every event taken before is
   applied, each once and in order. *)
C4_ShutdownExitsWithReason ==
    /\ (pc = "select" /\ chan # <<>>) ~> (pc \in {"returned", "panicked"})
    /\ [][(/\ pc = "select" /\ chan # <<>> /\ "recv" \notin disabled
           /\ ticksDue = 0 /\ inbox = <<>> /\ streamOpen
           /\ (pc' # pc \/ disabled' # disabled))
            => (pc' = "returned" /\ result' = Head(chan))]_vars
    /\ [](pc = "returned" =>
            /\ result \in Range(sent)
            /\ applied = yielded
            /\ StoreView(app) = StoreView(Replay(App_new, applied)))

C4_Witness ==
    /\ pc = "returned"
    /\ result = "OsSigInt"
    /\ Len(applied) >= 1
    /\ inbox # <<>>
    /\ ticksDue > 0

(* C5 as stated: main_loop takes the items of its three sources strictly in
   the order in which they became ready, across sources. *)
C5_TakenInReadinessOrder ==
    [][(pc = "select" /\ pc' \in {"ev_lock", "tick_lock", "returned"})
        => readyOrder' = Tail(readyOrder)]_vars

(* C5 amended: each iteration of main_loop takes exactly one item, from one
   source, and it is the oldest ready item of that source; which of several
   ready sources is taken is not determined. *)
C5_OneItemPerIterationOldestOfSource ==
    [][(pc = "select" /\ pc' \in {"ev_lock", "tick_lock", "returned"}) =>
        \/ /\ pc' = "ev_lock"
           /\ inbox # <<>> /\ cur' = Head(inbox) /\ inbox' = Tail(inbox)
           /\ readyOrder' = RemoveFirst(readyOrder, "event")
           /\ Len(readyOrder') = Len(readyOrder) - 1
           /\ UNCHANGED <<ticksDue, chan, app>>
        \/ /\ pc' = "tick_lock"
           /\ ticksDue > 0 /\ ticksDue' = ticksDue - 1
           /\ readyOrder' = RemoveFirst(readyOrder, "tick")
           /\ Len(readyOrder') = Len(readyOrder) - 1
           /\ UNCHANGED <<inbox, chan, app>>
        \/ /\ pc' = "returned"
           /\ chan # <<>> /\ result' = Head(chan) /\ chan' = Tail(chan)
           /\ readyOrder' = RemoveFirst(readyOrder, "shutdown")
           /\ Len(readyOrder') = Len(readyOrder) - 1
           /\ UNCHANGED <<inbox, ticksDue, app>>]_vars

\* a tick was taken while an event that became ready before it still waits
C5_Witness ==
    /\ pc = "tick_lock"
    /\ readyOrder # <<>>
    /\ Head(readyOrder) = "event"
    /\ ticksDue > 0

(* C6: main_loop holds the write guard exactly while one mutation runs, never
   while it waits in select! or for the lock; the lock has one writer at a
   time; and a render pass holding the read guard sees only whole events. *)
C6_WriteGuardOnlyDuringMutation ==
    /\ writer = "main" <=> pc \in {"ev_apply", "tick_apply"}
    /\ writer = "key" <=> keypc = "locked"
    /\ reading =>
          /\ writer = "none"
          /\ StoreView(app) = StoreView(Replay(App_new, applied))

C6_Witness ==
    /\ pc = "ev_apply"
    /\ stage = 2
    /\ writer = "main"
    /\ Len(applied) >= 1
    /\ nkeys >= 1

(* C7: main_loop returns only a value received from the shutdown broadcast:
   while nothing has been broadcast it has not returned, also after the event
   stream failed or ended, and a returned reason is one that was broadcast. *)
C7_ReturnsOnlyOnBroadcast ==
    /\ sent = <<>> => (pc # "returned" /\ result = "none")
    /\ pc = "returned" => (result \in Interrupted /\ result \in Range(sent))
    /\ pc # "returned" => result = "none"

C7_Witness ==
    /\ pc = "returned"
    /\ result = "OsSigInt"
    /\ faultSeen
    /\ sent = <<"OsSigInt">>
    /\ ticksObserved >= 1

\* handle_server_event has just completed event cur' on the state pre'
Completes(type) == applied' # applied /\ cur'.type = type

(* C8: LoginSuccessful{u, R} applied to any state sets username to u, makes
   the room list exactly the rooms of R, all with joined = false, and leaves
   exactly one empty log per room name of R and no other log. *)
C8_LoginReplacesRoomsAndLogs ==
    [][Completes("LoginSuccessful") =>
        /\ app'.username = cur'.username
        /\ Len(app'.rooms) = Len(cur'.rooms)
        /\ \A i \in DOMAIN cur'.rooms :
             /\ app'.rooms[i].name = cur'.rooms[i].name
             /\ app'.rooms[i].description = cur'.rooms[i].description
             /\ app'.rooms[i].joined = FALSE
        /\ DOMAIN app'.messages = { cur'.rooms[i].name : i \in DOMAIN cur'.rooms }
        /\ \A n \in DOMAIN app'.messages : app'.messages[n] = <<>>]_vars

\* a second login was applied to a state with a joined room and a logged message
C8_Witness ==
    /\ Len(applied) = 3
    /\ applied[1].type = "LoginSuccessful"
    /\ applied[3].type = "LoginSuccessful"
    /\ cur = applied[3]
    /\ \E i \in DOMAIN pre.rooms : pre.rooms[i].joined
    /\ \E n \in DOMAIN pre.messages : pre.messages[n] # <<>>
    /\ \A i \in DOMAIN app.rooms : ~ app.rooms[i].joined
    /\ \A n \in DOMAIN app.messages : app.messages[n] = <<>>

(* C9: RoomParticipation{r, u, s} for a known room r: when u is the own
   username the entry of r gets joined = (s = Joined) and no other entry of
   the room list changes; when u differs the room list is unchanged; in both
   cases exactly one Notification "u has joined the room" / "u has left the
   room" is appended at the end of r's log and no other log changes. *)
C9_ParticipationFlagAndNotification ==
    [][Completes("RoomParticipation") =>
        LET ev == cur'
            k == CHOOSE i \in DOMAIN pre'.rooms :
                   /\ pre'.rooms[i].name = ev.room
                   /\ \A j \in 1..(i - 1) : pre'.rooms[j].name # ev.room
            text == IF ev.status = "Joined"
                    THEN ev.username \o " has joined the room"
                    ELSE ev.username \o " has left the room"
        IN  /\ \E i \in DOMAIN pre'.rooms : pre'.rooms[i].name = ev.room
            /\ DOMAIN app'.rooms = DOMAIN pre'.rooms
            /\ ev.username = pre'.username =>
                  /\ app'.rooms[k].joined = (ev.status = "Joined")
                  /\ app'.rooms[k].name = pre'.rooms[k].name
                  /\ app'.rooms[k].description = pre'.rooms[k].description
                  /\ \A i \in DOMAIN pre'.rooms : i # k => app'.rooms[i] = pre'.rooms[i]
            /\ ev.username # pre'.username => app'.rooms = pre'.rooms
            /\ DOMAIN app'.messages = DOMAIN pre'.messages
            /\ app'.messages[ev.room] =
                  Append(pre'.messages[ev.room], [kind |-> "Notification", text |-> text])
            /\ \A n \in DOMAIN pre'.messages :
                  n # ev.room => app'.messages[n] = pre'.messages[n]
            /\ app'.username = pre'.username]_vars

\* another user left a room the own user has joined, after a message was logged
C9_Witness ==
    /\ Len(applied) = 3
    /\ cur = applied[3]
    /\ cur.type = "RoomParticipation"
    /\ cur.username # app.username
    /\ cur.status = "Left"
    /\ \E i \in DOMAIN app.rooms : app.rooms[i].name = cur.room /\ app.rooms[i].joined
    /\ Len(app.messages[cur.room]) = 2
    /\ Len(app.rooms) = 2

(* C10: UserMessage{r, u, c} for a known room r appends exactly one entry
   Message{u, c} at the end of r's log and changes nothing else: joined
   flags, room list, own username, tick counter, input buffer, cursor and
   every other room's log stay as they were. *)
C10_UserMessageAppendsOnly ==
    [][Completes("UserMessage") =>
        LET ev == cur' IN
        /\ ev.room \in DOMAIN pre'.messages
        /\ app'.messages[ev.room] =
              Append(pre'.messages[ev.room],
                     [kind |-> "Message", username |-> ev.username, content |-> ev.content])
        /\ DOMAIN app'.messages = DOMAIN pre'.messages
        /\ \A n \in DOMAIN pre'.messages :
              n # ev.room => app'.messages[n] = pre'.messages[n]
        /\ app'.rooms = pre'.rooms
        /\ app'.username = pre'.username
        /\ app'.timer = pre'.timer
        /\ app'.input = pre'.input
        /\ app'.cursor_position = pre'.cursor_position
        /\ app'.input_mode = pre'.input_mode
        /\ app'.active_room = pre'.active_room]_vars

\* a message was appended to the non-empty log of the second room while a room
\* is joined, the timer has run and the input buffer holds text
C10_Witness ==
    /\ applied # <<>>
    /\ cur = applied[Len(applied)]
    /\ cur.type = "UserMessage"
    /\ cur.room = "random"
    /\ app.messages["random"] = <<[kind |-> "Message", username |-> cur.username,
                                    content |-> cur.content]>>
    /\ app.timer > 0
    /\ app.input # <<>>
    /\ pre.input = app.input

\* handle_server_event was called on state pre' with event cur'
Handles(type) == yielded' # yielded /\ cur'.type = type

(* C11: a RoomParticipation or UserMessage naming a room that is not in the
   room list faults and leaves the whole state as it was before the event:
   no joined flag changes and no log gets an entry, whether or not the
   event's username is the own username, and also before any login. *)
C11_UnknownRoomFaultsStateKept ==
    [][(/\ Handles("RoomParticipation") \/ Handles("UserMessage")
        /\ cur'.room \notin RoomNamesOf(app.rooms))
        => /\ pc' = "panicked"
           /\ app' = app
           /\ applied' = applied]_vars

\* the own user's participation in a room the login did not list faulted,
\* after a room was joined and its log got entries
C11_Witness ==
    /\ pc = "panicked"
    /\ cur.type = "RoomParticipation"
    /\ cur.username = app.username
    /\ cur.room \notin RoomNamesOf(app.rooms)
    /\ \E i \in DOMAIN app.rooms : app.rooms[i].joined
    /\ \E n \in DOMAIN app.messages : app.messages[n] # <<>>
    /\ app = pre

\* s is an initial segment of t
IsPrefix(s, t) == Len(s) <= Len(t) /\ SubSeq(t, 1, Len(s)) = s

(* C12 as stated: in every transition, over every sequence of server events
   and ticks, the log of each room after the step has the log before the
   step as a prefix. *)
C12_LogsAppendOnly ==
    [][\A n \in DOMAIN app.messages \cap DOMAIN app'.messages :
          IsPrefix(app.messages[n], app'.messages[n])]_vars

(* C12 amended: in every transition other than the application of a
   LoginSuccessful event, the set of logs is unchanged and the log of each
   room after the step has the log before the step as a prefix. *)
C12_LogsAppendOnlyExceptLogin ==
    [][~ Completes("LoginSuccessful") =>
          /\ DOMAIN app'.messages = DOMAIN app.messages
          /\ \A n \in DOMAIN app.messages :
                IsPrefix(app.messages[n], app'.messages[n])]_vars

\* a second entry was appended to a log, behind the first
C12_Witness ==
    /\ Len(applied) = 3
    /\ cur = applied[3]
    /\ cur.type \in {"RoomParticipation", "UserMessage"}
    /\ applied[2].type \in {"RoomParticipation", "UserMessage"}
    /\ applied[2].type # cur.type
    /\ Len(pre.messages[cur.room]) = 1
    /\ Len(app.messages[cur.room]) = 2
    /\ app.messages[cur.room][1] = pre.messages[cur.room][1]

(* C13: increment_timer increases the tick counter by exactly one and
   changes nothing else: username, room list with its joined flags, every
   log, active room, input buffer, cursor and input mode stay as they were. *)
C13_TimerOnlyTimer ==
    [][ticksObserved' # ticksObserved =>
          /\ app'.timer = app.timer + 1
          /\ app'.username = app.username
          /\ app'.rooms = app.rooms
          /\ app'.messages = app.messages
          /\ app'.active_room = app.active_room
          /\ app'.input = app.input
          /\ app'.cursor_position = app.cursor_position
          /\ app'.input_mode = app.input_mode]_vars

\* the timer advanced in a state with a joined room, logged entries and text
\* in the input buffer
C13_Witness ==
    /\ ticksObserved = 1
    /\ app.timer = 1
    /\ app.username # ""
    /\ \E i \in DOMAIN app.rooms : app.rooms[i].joined
    /\ \E n \in DOMAIN app.messages : Len(app.messages[n]) = 2
    /\ app.input # <<>>
    /\ app.cursor_position > 0
    /\ app.input_mode = "Editing"

\* the key task has just run handle_key_event, which took the branch effect
KeyStep(effect) == nkeys' # nkeys /\ KeyEffect(app, lastKey') = effect

(* C14: delete_char with the cursor at 0 changes nothing; otherwise it
   removes exactly the character before the cursor, keeps every other
   character in order and moves the cursor left by one, whatever the encoded
   width of the characters and whatever editing went before. *)
C14_DeleteRemovesCharBeforeCursor ==
    [][KeyStep("delete_char") =>
          LET p == app.cursor_position IN
          IF p = 0
          THEN app' = app
          ELSE /\ Len(app'.input) = Len(app.input) - 1
               /\ app'.input = SubSeq(app.input, 1, p - 1)
                                  \o SubSeq(app.input, p + 1, Len(app.input))
               /\ app'.cursor_position = p - 1]_vars

(* C15: enter_char(ch) with the cursor at character position p does not
   fault, yields the buffer with ch inserted at character position p, the
   characters before and from p on unchanged and in order, and moves the
   cursor to p + 1. *)
C15_InsertAtCharPosition ==
    [][(KeyStep("enter_char") /\ app.cursor_position <= CharLen(app.input)) =>
          LET p == app.cursor_position IN
          /\ keypc' # "panicked"
          /\ app'.input = SubSeq(app.input, 1, p) \o <<lastKey'.ch>>
                             \o SubSeq(app.input, p + 1, Len(app.input))
          /\ app'.cursor_position = p + 1]_vars

(* C20: in every state reached by editing, the stored cursor offset is a
   position at which String::insert accepts a character (within the buffer
   and on a character boundary), and no enter_char has faulted. *)
C20_CursorIsInsertionPosition ==
    /\ ~ enter_char_faults(app)
    /\ keypc # "panicked"

(* C16: Enter with an empty message buffer sends no SendMessage command to
   the transport (App::submit_message, the Enter path of App). *)
C16_EmptySubmitSendsNothing ==
    [][(KeyStep("submit") /\ app.input = <<>>) => outbox' = outbox]_vars

\* the router has just passed on a key event or a render pass
Routes == nUi' # nUi \/ routed' # routed

(* C18: the active page is a function of the connection status seen by the
   last update_from_state: the chat page exactly when that status is
   Connected, the connect page for Disconnected, Connecting and Errored; and
   a key event or a render pass goes to that page only, leaving the other
   page's input box as it was. *)
C18_ActivePageFollowsStatus ==
    /\ [](active_page = IF synced = "Connected" THEN "ChatPage" ELSE "ConnectPage")
    /\ [][Routes =>
            /\ routed'.page = IF synced = "Connected" THEN "ChatPage" ELSE "ConnectPage"
            /\ routed'.page = "ChatPage" => connect_box' = connect_box
            /\ routed'.page = "ConnectPage" => message_box' = message_box]_vars

\* keys went to the connect page, then, after the status became Connected and
\* update_from_state ran, to the chat page, whose input box took a character
C18_Witness ==
    /\ synced = "Connected"
    /\ active_page = "ChatPage"
    /\ routed = [op |-> "handle_key_event", page |-> "ChatPage"]
    /\ message_box.text # <<>>
    /\ connect_box.text # DEFAULT_SERVER_ADDR
    /\ server_connection_status = "Errored"

(* C19: a submit that yields a SendMessage or a ConnectToServerRequest leaves
   the input box of its page empty with the cursor at 0. *)
C19_BoxResetOnSubmit ==
    [][nUi' # nUi =>
          /\ uiAction'.type = "SendMessage" => message_box' = InputBox_new
          /\ uiAction'.type = "ConnectToServerRequest" => connect_box' = InputBox_new]_vars

(* C17: a transport fault is never silently dropped: once a write of a
   SendMessage command has failed or the event source has yielded a fault or
   ended, the connection status becomes Errored or a termination reason is
   broadcast. *)
C17_TransportFaultSurfaced ==
    (faultSeen \/ sendFailed) ~> (server_connection_status = "Errored" \/ sent # <<>>)

(* C21: in every state reached by server events and ticks, the rooms that
   have a message log are exactly the rooms named in the room list, also
   after a LoginSuccessful that repeats a room name and after more than one
   login. *)
C21_LogsMatchRooms ==
    DOMAIN app.messages = RoomNamesOf(app.rooms)

\* a second login, one that repeats a room name, was applied after a login
\* with two rooms
C21_Witness ==
    /\ Len(applied) = 3
    /\ applied[1].type = "LoginSuccessful"
    /\ Len(applied[1].rooms) = 2
    /\ RoomNamesOf(applied[1].rooms) = {"general", "random"}
    /\ applied[2].type = "UserMessage"
    /\ applied[3].type = "LoginSuccessful"
    /\ Len(app.rooms) = 2
    /\ app.rooms[1].name = app.rooms[2].name
    /\ DOMAIN app.messages = {"general"}

\* the intent the connect page is to give for key when its box holds text
ConnectIntent(text, key) ==
    IF key.kind # "Press" THEN [type |-> "None"]
    ELSE IF key.code = "Enter"
         THEN IF text # <<>>
              THEN [type |-> "ConnectToServerRequest", addr |-> text]
              ELSE [type |-> "None"]
    ELSE IF key.code = "Char" /\ (key.ch = "q" \/ (key.ch = "c" /\ key.ctrl))
         THEN [type |-> "Exit"]
    ELSE [type |-> "None"]

(* C22: on the connect page a key event that is not a Press gives None; a
   pressed Enter gives ConnectToServerRequest with the text of the box when
   the box is not empty and None when it is empty; a pressed 'q' or Ctrl+'c'
   gives Exit; every other pressed key gives None; and handling a key on the
   connect page changes nothing of the application state (connection status,
   active room, the other page, the App). *)
C22_ConnectPageIntents ==
    /\ [](\A key \in Keys :
            ConnectPage_handle_key_event(connect_box, key).action
              = ConnectIntent(connect_box.text, key))
    /\ [][(nUi' # nUi /\ routed'.page = "ConnectPage") =>
            /\ uiAction' \in { ConnectIntent(connect_box.text, key) : key \in Keys }
            /\ UNCHANGED <<server_connection_status, state_room, active_page,
                           box_room, message_box, synced, coreVars>>]_vars

\* the third key on the connect page was an Enter on a box the user had
\* edited down to one character, and it asked to connect to that text
C22_Witness ==
    /\ routed = [op |-> "handle_key_event", page |-> "ConnectPage"]
    /\ nUi = 3
    /\ uiAction = [type |-> "ConnectToServerRequest", addr |-> <<"e">>]
    /\ connect_box.text = <<"e">>

====
